---- MODULE Spec2Model ----
(***************************************************************************)
(* A model of src/src/commands/tflint.ts: the TFLintCommands registrar,    *)
(* the RunTreeDataProvider (refresh / getTreeItem / getChildren /          *)
(* resolveTreeItem / getRuns), the five lookup helpers over the JSON:API   *)
(* `included` array, the RunTreeItem view-model and runMarkdown.           *)
(*                                                                         *)
(* JavaScript values are modelled as follows.  An object is a record.  A   *)
(* missing object is the record Undefined, a missing string is the string  *)
(* Unset (two sentinels, one per sort, because the values of one field     *)
(* must be comparable).  An await is a point where other handlers of the   *)
(* single-threaded host may run, so an async function is one action per    *)
(* synchronous segment.                                                    *)
(***************************************************************************)
EXTENDS Integers, Sequences, FiniteSets, TLC

VARIABLES
    \* ---- RunTreeDataProvider and its host
    activeWorkspace,   \* this.activeWorkspace
    organization,      \* ctx.workspaceState 'terraform.cloud.organization'
    session,           \* whether the host holds an authentication session
    fired,             \* number of didChangeTreeData events fired
    refreshCalls,      \* number of refresh() invocations
    lastRefreshArg,    \* argument of the most recent refresh() invocation
    \* ---- one getChildren call and the getRuns it starts
    pc,                \* idle | awaitSession | awaitListRuns | resolved | rejected
    callElement,       \* the `element` argument
    callWorkspace,     \* the `workspace` parameter of getRuns
    callOrganization,  \* the local `organization` of getRuns
    sessionResult,     \* what getSession answered: none | session | undefined
    requests,          \* listRuns requests issued by this call
    response,          \* what listRuns answered
    lookups,           \* per run of the answer, what the lookup helpers returned
    result,            \* the list the promise resolved to
    notifications,     \* user-facing notifications shown by this call
    \* ---- getTreeItem / resolveTreeItem
    treeItem,          \* last value returned by getTreeItem
    hovered,           \* element last passed to resolveTreeItem
    tooltip,           \* item.tooltip after resolveTreeItem
    \* ---- TFLintCommands and its host
    client,            \* this.client
    reporter,          \* this.reporter
    commands,          \* this.commands: the disposables the instance holds
    registry,          \* command names currently registered with the host
    disposed,          \* whether dispose() has run
    invocations,       \* per invocation of 'terraform.tflint': its position
    linterCalls        \* calls made to terraform.tflint, in order

providerVars == <<activeWorkspace, organization, session, fired, refreshCalls,
                  lastRefreshArg>>
callVars == <<pc, callElement, callWorkspace, callOrganization, sessionResult,
              requests, response, lookups, result, notifications>>
hoverVars == <<treeItem, hovered, tooltip>>
tflintVars == <<client, reporter, commands, registry, disposed, invocations,
                linterCalls>>
vars == <<providerVars, callVars, hoverVars, tflintVars>>

(***************************************************************************)
(* Bounds                                                                  *)
(***************************************************************************)
MaxRefresh == 3        \* refresh() invocations explored
MaxIncluded == 2       \* length of the exhaustively enumerated included arrays
MaxInvocations == 3    \* invocations of 'terraform.tflint' explored

(***************************************************************************)
(* JavaScript values                                                       *)
(***************************************************************************)
Undefined == [undefined |-> TRUE]
Unset == "<undefined>"

\* String(v) as `+=` applies it to its left operand.
JsToString(v) == IF v = Unset THEN "undefined" ELSE v

\* a += b on strings
JsAppend(a, b) == JsToString(a) \o b

\* rel?.data?.id
RelId(rel) ==
    IF rel = Undefined THEN Unset
    ELSE IF rel.data = Undefined THEN Unset
    ELSE rel.data.id

Rel(id) == [data |-> [id |-> id]]
NoData == [data |-> Undefined]

(***************************************************************************)
(* Workspaces, runs and included objects                                   *)
(***************************************************************************)
Workspace(id, name) ==
    [id |-> id, attributes |-> [name |-> name, executionMode |-> "remote"]]
W1 == Workspace("ws-1", "alpha")
W2 == Workspace("ws-2", "beta")
Workspaces == {W1, W2}

Ids == {"a", "b"}
TerminalStatuses == {"errored", "canceled", "finished"}

Included(type, id, attributes, relationships) ==
    [type |-> type, id |-> id, attributes |-> attributes,
     relationships |-> relationships]

Users == {Included("users", i, [username |-> u, avatarUrl |-> "avatar"], Undefined) :
            i \in Ids, u \in {"u1", "u2"}}
Plans == {Included("plans", i, [status |-> s], Undefined) :
            i \in Ids, s \in {"finished", "planning"}}
Applies == {Included("applies", i, [status |-> s], Undefined) :
            i \in Ids, s \in {"errored", "applying"}}
ConfigurationVersions ==
    {Included("configuration-versions", i, [source |-> s],
              [ingressAttributes |-> r]) :
        i \in Ids, s \in {Unset, "tfe-api"}, r \in {Undefined, Rel("a")}}
Ingresses == {Included("ingress-attributes", i,
                       [senderUsername |-> u,
                        commitSha |-> <<"0", "1", "2", "3", "4", "5", "6", "7", "8", "9">>,
                        commitMessage |-> <<"subject", "body">>],
                       Undefined) :
                i \in Ids, u \in {"s1", "s2"}}
IncludedObjects == Users \cup Plans \cup Applies \cup ConfigurationVersions
                     \cup Ingresses

Run(id, plan, apply, cfg, createdBy) ==
    [id |-> id,
     attributes |-> [message |-> "msg", source |-> "tfe-api",
                     status |-> "applied", triggerReason |-> "manual"],
     relationships |-> [plan |-> plan, apply |-> apply,
                        configurationVersion |-> cfg, createdBy |-> createdBy]]

\* Every run refers to the id "a"; included objects carry "a" or "b".
Runs == {Run("run-1", p, a, c, u) :
            p \in {Undefined, NoData, Rel("a")},
            a \in {Undefined, NoData, Rel("a")},
            c \in {Undefined, Rel("a")},
            u \in {Undefined, Rel("a")}}

(***************************************************************************)
(* The lookup helpers                                                      *)
(***************************************************************************)
\* Array.prototype.find with the predicate type === t && id === id, as the
\* index of the element found, 0 when there is none.
RECURSIVE FindFrom(_, _, _, _)
FindFrom(included, type, id, i) ==
    IF i > Len(included) THEN 0
    ELSE IF included[i].type = type /\ included[i].id = id THEN i
    ELSE FindFrom(included, type, id, i + 1)

\* Mutant of Find: the array is scanned from its end, so the last match is
\* found.
RECURSIVE FindLastFrom(_, _, _, _)
FindLastFrom(included, type, id, i) ==
    IF i = 0 THEN 0
    ELSE IF included[i].type = type /\ included[i].id = id THEN i
    ELSE FindLastFrom(included, type, id, i - 1)

FindLast(included, type, id) == FindLastFrom(included, type, id, Len(included))

Find(included, type, id) == FindFrom(included, type, id, 1)

findConfigurationVersionAttributes(included, run) ==
    LET i == Find(included, "configuration-versions",
                  RelId(run.relationships.configurationVersion))
    IN  IF i = 0 THEN Undefined ELSE included[i]

findPlanAttributes(included, run) ==
    LET i == Find(included, "plans", RelId(run.relationships.plan))
    IN  IF i = 0 THEN Undefined ELSE included[i].attributes

findApplyAttributes(included, run) ==
    LET i == Find(included, "applies", RelId(run.relationships.apply))
    IN  IF i = 0 THEN Undefined ELSE included[i].attributes

findCreatedByAttributes(included, run) ==
    LET i == Find(included, "users", RelId(run.relationships.createdBy))
    IN  IF i = 0 THEN Undefined ELSE included[i].attributes

findIngressAttributes(included, cfgVersion) ==
    LET i == Find(included, "ingress-attributes",
                  RelId(cfgVersion.relationships.ingressAttributes))
    IN  IF i = 0 THEN Undefined ELSE included[i].attributes

(***************************************************************************)
(* RunTreeItem and the body of the loop of getRuns                         *)
(***************************************************************************)
RunTreeItem(id, attributes, workspace) ==
    [id |-> id, attributes |-> attributes, workspace |-> workspace,
     createdBy |-> Undefined, configurationVersion |-> Undefined,
     ingressAttributes |-> Undefined,
     planAttributes |-> Undefined, planId |-> Unset,
     applyAttributes |-> Undefined, applyId |-> Unset,
     contextValue |-> Unset]

\* line 198: runs.included is present (an empty array is)
HasIncluded(runs) == "included" \in DOMAIN runs

\* The value of a local whose helper the loop body did not call.
NotCalled == [notCalled |-> TRUE]

\* lines 203..225: what the lookup helpers return to one iteration of the
\* loop.  findIngressAttributes is called only with a configuration version
\* that was found, findPlanAttributes and findApplyAttributes only when the
\* run has the relationship.
Lookups(run, runs) ==
    IF ~HasIncluded(runs)
    THEN [createdBy |-> NotCalled, cfgVersion |-> NotCalled,
          ingressAttrs |-> NotCalled, planAttributes |-> NotCalled,
          applyAttributes |-> NotCalled]
    ELSE LET cfgVersion == findConfigurationVersionAttributes(runs.included, run)
         IN  [createdBy |-> findCreatedByAttributes(runs.included, run),
              cfgVersion |-> cfgVersion,
              ingressAttrs |->
                  IF cfgVersion # Undefined
                  THEN findIngressAttributes(runs.included, cfgVersion)
                  ELSE NotCalled,
              planAttributes |->
                  IF run.relationships.plan # Undefined
                  THEN findPlanAttributes(runs.included, run)
                  ELSE NotCalled,
              applyAttributes |->
                  IF run.relationships.apply # Undefined
                  THEN findApplyAttributes(runs.included, run)
                  ELSE NotCalled]

\* lines 203..211: creator, configuration version and its ingress attributes
WithCreatorAndConfiguration(runItem, found) ==
    LET item1 == [runItem EXCEPT !.createdBy = found.createdBy]
    IN  IF found.cfgVersion # Undefined
        THEN [item1 EXCEPT
                !.configurationVersion = found.cfgVersion.attributes,
                !.ingressAttributes = found.ingressAttrs]
        ELSE item1

\* Mutant of WithPlan: the status of the plan is not looked at.
WithPlanAnyStatus(runItem, found, run) ==
    IF run.relationships.plan # Undefined
       /\ found.planAttributes # Undefined
    THEN [runItem EXCEPT
            !.planId = RelId(run.relationships.plan),
            !.planAttributes = found.planAttributes,
            !.contextValue = "hasPlan"]
    ELSE runItem

\* lines 213..222
WithPlan(runItem, found, run) ==
    IF run.relationships.plan # Undefined
       /\ found.planAttributes # Undefined
       /\ found.planAttributes.status \in TerminalStatuses
    THEN [runItem EXCEPT
            !.planId = RelId(run.relationships.plan),
            !.planAttributes = found.planAttributes,
            !.contextValue = "hasPlan"]
    ELSE runItem

\* lines 224..233
WithApply(runItem, found, run) ==
    IF run.relationships.apply # Undefined
       /\ found.applyAttributes # Undefined
       /\ found.applyAttributes.status \in TerminalStatuses
    THEN [runItem EXCEPT
            !.applyId = RelId(run.relationships.apply),
            !.applyAttributes = found.applyAttributes,
            !.contextValue = JsAppend(@, "hasApply")]
    ELSE runItem

\* lines 195..235: the item pushed for one run
BuildItem(run, runs, workspace) ==
    LET runItem == RunTreeItem(run.id, run.attributes, workspace)
        found == Lookups(run, runs)
    IN  IF ~HasIncluded(runs) THEN runItem
        ELSE WithApply(
                 WithPlan(WithCreatorAndConfiguration(runItem, found), found, run),
                 found, run)

\* lines 193..238
BuildItems(runs, workspace) ==
    [i \in 1..Len(runs.data) |-> BuildItem(runs.data[i], runs, workspace)]

\* lines 184..190
EmptyPlaceholder(workspace) ==
    [label |-> [text |-> "No runs found for", name |-> workspace.attributes.name],
     contextValue |-> "empty"]

(***************************************************************************)
(* runMarkdown                                                             *)
(***************************************************************************)
TypeError == [error |-> "TypeError"]

\* String.prototype.slice(0, n) on a string held as its characters
Slice(chars, n) == SubSeq(chars, 1, IF Len(chars) < n THEN Len(chars) ELSE n)

\* Mutant of AuthorParts: the ingress sender is preferred to the creator.
AuthorPartsIngressFirst(item) ==
    IF item.ingressAttributes # Undefined
    THEN << [part |-> "author", from |-> "ingress",
             username |-> item.ingressAttributes.senderUsername] >>
    ELSE IF item.createdBy # Undefined
    THEN << [part |-> "author", from |-> "createdBy",
             username |-> item.createdBy.username] >>
    ELSE << >>

\* lines 368..374
AuthorParts(item) ==
    IF item.createdBy # Undefined
    THEN << [part |-> "author", from |-> "createdBy",
             username |-> item.createdBy.username] >>
    ELSE IF item.ingressAttributes # Undefined
    THEN << [part |-> "author", from |-> "ingress",
             username |-> item.ingressAttributes.senderUsername] >>
    ELSE << >>

\* lines 390..409
ConfigurationRows(item) ==
    IF item.ingressAttributes # Undefined
       /\ item.configurationVersion # Undefined
       /\ item.configurationVersion.source # Unset
    THEN << [row |-> "Configuration", detailed |-> TRUE,
             source |-> item.configurationVersion.source,
             sender |-> item.ingressAttributes.senderUsername],
            [row |-> "Commit",
             sha |-> Slice(item.ingressAttributes.commitSha, 8),
             message |-> Head(item.ingressAttributes.commitMessage)] >>
    ELSE << [row |-> "Configuration", detailed |-> FALSE,
             source |-> item.attributes.source] >>

\* lines 359..415; reading item.workspace.attributes of a missing workspace
\* throws, and then no markdown is returned
runMarkdown(item) ==
    IF item.workspace = Undefined THEN TypeError
    ELSE [value |->
            AuthorParts(item)
            \o << [part |-> "headline", trigger |-> item.attributes.triggerReason,
                   source |-> item.attributes.source],
                  [row |-> "Run ID", id |-> item.id],
                  [row |-> "Status", status |-> item.attributes.status] >>
            \o ConfigurationRows(item)
            \o << [row |-> "Trigger", trigger |-> item.attributes.triggerReason],
                  [row |-> "Execution Mode",
                   mode |-> item.workspace.attributes.executionMode] >>]

(***************************************************************************)
(* What the remote API may answer                                          *)
(***************************************************************************)
RECURSIVE SeqsUpTo(_, _)
SeqsUpTo(S, n) ==
    IF n = 0 THEN {<< >>}
    ELSE LET shorter == SeqsUpTo(S, n - 1)
         IN  shorter \cup {Append(q, x) : q \in shorter, x \in S}

UserA == Included("users", "a", [username |-> "u1", avatarUrl |-> "avatar"], Undefined)
PlanA == Included("plans", "a", [status |-> "finished"], Undefined)
ApplyA == Included("applies", "a", [status |-> "errored"], Undefined)
CfgA == Included("configuration-versions", "a", [source |-> "tfe-api"],
                 [ingressAttributes |-> Rel("a")])
IngressA == CHOOSE o \in Ingresses : o.id = "a" /\ o.attributes.senderUsername = "s1"

\* Arrays longer than MaxIncluded, so that an item can carry every decoration.
SampleIncluded ==
    { << UserA, CfgA, IngressA, PlanA, ApplyA >>,
      << CfgA, IngressA, ApplyA >>,
      << UserA, CfgA, IngressA >> }

FullRun == Run("run-1", Rel("a"), Rel("a"), Rel("a"), Rel("a"))
BareRun == Run("run-2", Undefined, Undefined, Undefined, Undefined)

\* The answers explored together with every interleaving of the provider.
SampleData == {<< >>, << FullRun >>, << FullRun, BareRun >>}
Responses ==
    [data : SampleData]
    \cup [data : SampleData,
          included : {<< UserA, CfgA, IngressA, PlanA, ApplyA >>,
                      << CfgA, IngressA, ApplyA >>}]

\* The answers explored for the item construction: one run, every included
\* array up to MaxIncluded, and the sample arrays.
WideResponses ==
    [data : {<< r >> : r \in Runs}]
    \cup [data : {<< r >> : r \in Runs},
          included : SeqsUpTo(IncludedObjects, MaxIncluded) \cup SampleIncluded]

ErrorShapes == {"ZodiosError", "Axios401", "Axios404", "AxiosAlias",
                "AxiosOther", "Error", "string", "other"}

Organizations == {"", "org"}
Element == RunTreeItem("run-0", FullRun.attributes, W1)

(***************************************************************************)
(* RunTreeDataProvider                                                     *)
(***************************************************************************)
NoCall ==
    /\ pc = "idle"
    /\ callElement = Undefined
    /\ callWorkspace = Undefined
    /\ callOrganization = Unset
    /\ sessionResult = "none"
    /\ requests = << >>
    /\ response = Undefined
    /\ lookups = << >>
    /\ result = << >>
    /\ notifications = << >>

NoHover ==
    /\ treeItem = Undefined
    /\ hovered = Undefined
    /\ tooltip = Undefined

\* Mutant of Refresh: the event is fired but the workspace is not stored.
RefreshWithoutStore(workspaceItem) ==
    /\ refreshCalls < MaxRefresh
    /\ fired' = fired + 1
    /\ refreshCalls' = refreshCalls + 1
    /\ lastRefreshArg' = workspaceItem
    /\ UNCHANGED <<activeWorkspace, organization, session, callVars, hoverVars,
                   tflintVars>>

\* lines 123..126
Refresh(workspaceItem) ==
    /\ refreshCalls < MaxRefresh
    /\ activeWorkspace' = workspaceItem
    /\ fired' = fired + 1
    /\ refreshCalls' = refreshCalls + 1
    /\ lastRefreshArg' = workspaceItem
    /\ UNCHANGED <<organization, session, callVars, hoverVars, tflintVars>>

\* lines 69..72: the 'terraform.cloud.runs.refresh' command
RefreshCommand == Refresh(activeWorkspace)

\* lines 128..130
GetTreeItem(element) ==
    /\ treeItem' = element
    /\ UNCHANGED <<providerVars, callVars, hovered, tooltip, tflintVars>>

\* The promise of an async function that has returned.
Resolve(list) ==
    /\ pc' = "resolved"
    /\ result' = list

\* The promise of an async function that has thrown.
Reject ==
    /\ pc' = "rejected"
    /\ result' = << >>

\* lines 132..145 and, for a root call with an active workspace, lines
\* 152..160 of getRuns: up to the await of getSession
GetChildren(element) ==
    /\ pc = "idle"
    /\ callElement' = element
    /\ IF element # Undefined
       THEN /\ Resolve(<< element >>)
            /\ UNCHANGED <<callWorkspace, callOrganization>>
       ELSE IF activeWorkspace = Undefined
       THEN /\ Resolve(<< >>)
            /\ UNCHANGED <<callWorkspace, callOrganization>>
       ELSE /\ callWorkspace' = activeWorkspace
            /\ callOrganization' = organization
            /\ IF organization = ""
               THEN Resolve(<< >>)
               ELSE /\ pc' = "awaitSession"
                    /\ UNCHANGED result
    /\ UNCHANGED <<providerVars, sessionResult, requests, response, lookups,
                   notifications, hoverVars, tflintVars>>

\* Mutant of SessionResolves: the request is issued whatever getSession
\* answered.
SessionResolvesWithoutSessionCheck ==
    /\ pc = "awaitSession"
    /\ sessionResult' = IF session THEN "session" ELSE "undefined"
    /\ IF activeWorkspace = Undefined
       THEN /\ Resolve(<< >>)
            /\ UNCHANGED requests
       ELSE /\ requests' = Append(requests, [workspace_id |-> callWorkspace.id])
            /\ pc' = "awaitListRuns"
            /\ UNCHANGED result
    /\ UNCHANGED <<providerVars, callElement, callWorkspace, callOrganization,
                   response, lookups, notifications, hoverVars, tflintVars>>

\* lines 158..177: getSession answers; the listRuns request is issued
SessionResolves ==
    /\ pc = "awaitSession"
    /\ sessionResult' = IF session THEN "session" ELSE "undefined"
    /\ IF ~session \/ activeWorkspace = Undefined
       THEN /\ Resolve(<< >>)
            /\ UNCHANGED requests
       ELSE /\ requests' = Append(requests, [workspace_id |-> callWorkspace.id])
            /\ pc' = "awaitListRuns"
            /\ UNCHANGED result
    /\ UNCHANGED <<providerVars, callElement, callWorkspace, callOrganization,
                   response, lookups, notifications, hoverVars, tflintVars>>

Notification(kind, name, id, detail) ==
    [kind |-> kind, name |-> name, id |-> id, detail |-> detail]

\* lines 242..279: the notification shown for an error, given the message
\* prefix built at line 240
NotificationFor(error, name, id) ==
    CASE error = "ZodiosError" -> Notification("validation", name, id, "")
      [] error = "Axios401"    -> Notification("auth", Unset, Unset, "")
      [] error = "Axios404"    -> Notification("warning", name, id, "")
      [] error = "AxiosAlias"  -> Notification("error", name, id, "api errors")
      [] error = "AxiosOther"  -> Notification("error", name, id, "error.message")
      [] error = "Error"       -> Notification("error", name, id, "error.message")
      [] error = "string"      -> Notification("error", name, id, "error")
      [] OTHER                 -> Notification("error", name, id, "")

\* lines 239..280: the catch block of getRuns
Catch(error) ==
    IF activeWorkspace = Undefined
    THEN /\ Reject
         /\ UNCHANGED notifications
    ELSE /\ notifications' =
              Append(notifications,
                     NotificationFor(error, activeWorkspace.attributes.name,
                                     callWorkspace.id))
         /\ Resolve(<< >>)

\* lines 179..238: listRuns answers with a page of runs
ListRunsSucceeds(runs) ==
    /\ pc = "awaitListRuns"
    /\ response' = runs
    /\ lookups' = [i \in 1..Len(runs.data) |-> Lookups(runs.data[i], runs)]
    /\ IF Len(runs.data) = 0
       THEN IF activeWorkspace = Undefined
            THEN Catch("Error")
            ELSE /\ Resolve(<< EmptyPlaceholder(activeWorkspace) >>)
                 /\ UNCHANGED notifications
       ELSE /\ Resolve(BuildItems(runs, activeWorkspace))
            /\ UNCHANGED notifications
    /\ UNCHANGED <<providerVars, callElement, callWorkspace, callOrganization,
                   sessionResult, requests, hoverVars, tflintVars>>

\* lines 171..177, 239..280: listRuns throws
ListRunsFails(error) ==
    /\ pc = "awaitListRuns"
    /\ response' = [error |-> error]
    /\ Catch(error)
    /\ UNCHANGED lookups
    /\ UNCHANGED <<providerVars, callElement, callWorkspace, callOrganization,
                   sessionResult, requests, hoverVars, tflintVars>>

\* The host has taken the outcome of the call; the next call may start.
CallReturns ==
    /\ pc \in {"resolved", "rejected"}
    /\ pc' = "idle"
    /\ callElement' = Undefined
    /\ callWorkspace' = Undefined
    /\ callOrganization' = Unset
    /\ sessionResult' = "none"
    /\ requests' = << >>
    /\ response' = Undefined
    /\ lookups' = << >>
    /\ result' = << >>
    /\ notifications' = << >>
    /\ hovered' = Undefined
    /\ tooltip' = Undefined
    /\ treeItem' = Undefined
    /\ UNCHANGED <<providerVars, tflintVars>>

\* The run items among the elements the call returned.
ReturnedItems ==
    IF pc = "resolved" /\ callElement = Undefined /\ response # Undefined
       /\ "data" \in DOMAIN response /\ Len(response.data) > 0
    THEN {result[i] : i \in 1..Len(result)}
    ELSE {}

\* lines 147..150
ResolveTreeItem(element) ==
    /\ hovered' = element
    /\ tooltip' = LET markdown == runMarkdown(element)
                  IN  IF markdown = TypeError THEN Undefined ELSE markdown
    /\ UNCHANGED <<providerVars, callVars, treeItem, tflintVars>>

\* ctx.workspaceState 'terraform.cloud.organization' is written elsewhere
SetOrganization(name) ==
    /\ name # organization
    /\ organization' = name
    /\ UNCHANGED <<activeWorkspace, session, fired, refreshCalls, lastRefreshArg,
                   callVars, hoverVars, tflintVars>>

\* the authentication session comes and goes
SetSession(exists) ==
    /\ exists # session
    /\ session' = exists
    /\ UNCHANGED <<activeWorkspace, organization, fired, refreshCalls,
                   lastRefreshArg, callVars, hoverVars, tflintVars>>

(***************************************************************************)
(* TFLintCommands                                                          *)
(***************************************************************************)
Clients == {"client-1", "client-2"}
Reporters == {"reporter-1", "reporter-2"}

\* lines 14..20: the instance as the constructor leaves it
Constructed(c, r) ==
    /\ client = c
    /\ reporter = r
    /\ commands = << "terraform.tflint" >>
    /\ registry = {"terraform.tflint"}
    /\ disposed = FALSE
    /\ invocations = << >>
    /\ linterCalls = << >>

\* lines 16..18, up to the await: the handler calls terraform.tflint
InvokeTFLint ==
    /\ "terraform.tflint" \in registry
    /\ Len(invocations) < MaxInvocations
    /\ invocations' = Append(invocations, "awaiting")
    /\ linterCalls' = Append(linterCalls,
                             [by |-> Len(invocations) + 1, client |-> client,
                              reporter |-> reporter, done |-> FALSE])
    /\ UNCHANGED <<client, reporter, commands, registry, disposed, providerVars,
                   callVars, hoverVars>>

\* terraform.tflint settles
LinterCompletes(k) ==
    /\ ~linterCalls[k].done
    /\ linterCalls' = [linterCalls EXCEPT ![k].done = TRUE]
    /\ UNCHANGED <<client, reporter, commands, registry, disposed, invocations,
                   providerVars, callVars, hoverVars>>

\* line 17: the await resumes and the handler returns
InvocationCompletes(i) ==
    /\ invocations[i] = "awaiting"
    /\ \E k \in 1..Len(linterCalls) : linterCalls[k].by = i /\ linterCalls[k].done
    /\ invocations' = [invocations EXCEPT ![i] = "completed"]
    /\ UNCHANGED <<client, reporter, commands, registry, disposed, linterCalls,
                   providerVars, callVars, hoverVars>>

\* Mutant of Dispose: the commands are left registered.
DisposeKeepsCommands ==
    /\ disposed' = TRUE
    /\ UNCHANGED <<client, reporter, commands, registry, invocations, linterCalls,
                   providerVars, callVars, hoverVars>>

\* lines 22..24
Dispose ==
    /\ registry' = registry \ {commands[i] : i \in 1..Len(commands)}
    /\ disposed' = TRUE
    /\ UNCHANGED <<client, reporter, commands, invocations, linterCalls,
                   providerVars, callVars, hoverVars>>

(***************************************************************************)
(* Specifications                                                          *)
(***************************************************************************)
\* lines 58..121: the provider as its constructor leaves it
Init ==
    /\ activeWorkspace = Undefined
    /\ organization \in Organizations
    /\ session \in BOOLEAN
    /\ fired = 0
    /\ refreshCalls = 0
    /\ lastRefreshArg = Undefined
    /\ NoCall
    /\ NoHover
    /\ Constructed("client-1", "reporter-1")

Next ==
    \/ \E w \in Workspaces \cup {Undefined} : Refresh(w)
    \/ RefreshCommand
    \/ \E e \in {Undefined, Element} : GetChildren(e)
    \/ SessionResolves
    \/ pc = "awaitListRuns" /\ \E r \in Responses : ListRunsSucceeds(r)
    \/ pc = "awaitListRuns" /\ \E error \in ErrorShapes : ListRunsFails(error)
    \/ CallReturns
    \/ \E i \in 1..Len(result) : pc = "resolved" /\ GetTreeItem(result[i])
    \/ \E e \in ReturnedItems : ResolveTreeItem(e)
    \/ \E name \in Organizations : SetOrganization(name)
    \/ \E exists \in BOOLEAN : SetSession(exists)

Spec == Init /\ [][Next]_vars

\* The provider after refresh(W1) and a root getChildren call whose listRuns
\* request is in flight.
InitItems ==
    /\ activeWorkspace = W1
    /\ organization = "org"
    /\ session = TRUE
    /\ refreshCalls = 1
    /\ fired = 1
    /\ lastRefreshArg = W1
    /\ pc = "awaitListRuns"
    /\ callElement = Undefined
    /\ callWorkspace = W1
    /\ callOrganization = "org"
    /\ sessionResult = "session"
    /\ requests = << [workspace_id |-> W1.id] >>
    /\ response = Undefined
    /\ lookups = << >>
    /\ result = << >>
    /\ notifications = << >>
    /\ NoHover
    /\ Constructed("client-1", "reporter-1")

NextItems ==
    \/ pc = "awaitListRuns" /\ \E r \in WideResponses : ListRunsSucceeds(r)
    \/ \E e \in ReturnedItems : ResolveTreeItem(e)

SpecItems == InitItems /\ [][NextItems]_vars

InitTFLint ==
    /\ activeWorkspace = Undefined
    /\ organization = "org"
    /\ session = TRUE
    /\ fired = 0
    /\ refreshCalls = 0
    /\ lastRefreshArg = Undefined
    /\ NoCall
    /\ NoHover
    /\ \E c \in Clients, r \in Reporters : Constructed(c, r)

NextTFLint ==
    \/ InvokeTFLint
    \/ \E k \in 1..Len(linterCalls) : LinterCompletes(k)
    \/ \E i \in 1..Len(invocations) : InvocationCompletes(i)
    \/ Dispose

SpecTFLint == InitTFLint /\ [][NextTFLint]_vars

(***************************************************************************)
(* Properties                                                              *)
(***************************************************************************)
\* The first element of the array with the type and the id, Undefined when
\* there is none.
FirstMatch(included, type, id) ==
    LET matching == {i \in 1..Len(included) :
                        included[i].type = type /\ included[i].id = id}
    IN  IF matching = {} THEN Undefined
        ELSE included[CHOOSE i \in matching : \A j \in matching : i <= j]

AttributesOf(object) == IF object = Undefined THEN Undefined ELSE object.attributes

\* listRuns answered with at least one run and the promise resolved.
SucceededWithRuns ==
    /\ pc = "resolved"
    /\ callElement = Undefined
    /\ response # Undefined
    /\ "data" \in DOMAIN response
    /\ Len(response.data) > 0

\* The four helpers that return attributes, against the first (type, id) match.
AttributeLookupsSelectFirstMatch(run, included, found) ==
    /\ found.createdBy =
         AttributesOf(FirstMatch(included, "users",
                                 RelId(run.relationships.createdBy)))
    /\ found.ingressAttrs # NotCalled =>
         found.ingressAttrs =
           AttributesOf(FirstMatch(included, "ingress-attributes",
                          RelId(found.cfgVersion.relationships.ingressAttributes)))
    /\ found.planAttributes # NotCalled =>
         found.planAttributes =
           AttributesOf(FirstMatch(included, "plans",
                                   RelId(run.relationships.plan)))
    /\ found.applyAttributes # NotCalled =>
         found.applyAttributes =
           AttributesOf(FirstMatch(included, "applies",
                                   RelId(run.relationships.apply)))

\* C1 (as amended): every lookup helper selects the first element of the
\* included array whose type is the helper's resource type and whose id is
\* the id the relationship refers to, and returns undefined when there is
\* none; findCreatedByAttributes, findIngressAttributes, findPlanAttributes
\* and findApplyAttributes return that element's attributes, while
\* findConfigurationVersionAttributes returns the element itself.
C1_LookupsSelectFirstMatch ==
    (SucceededWithRuns /\ HasIncluded(response)) =>
        \A i \in 1..Len(response.data) :
            /\ AttributeLookupsSelectFirstMatch(response.data[i],
                                                response.included, lookups[i])
            /\ lookups[i].cfgVersion =
                 FirstMatch(response.included, "configuration-versions",
                     RelId(response.data[i].relationships.configurationVersion))

\* C1 (as stated): every one of the five helpers, the configuration version
\* helper included, returns the attributes of the first (type, id) match.
C1_EveryLookupReturnsAttributes ==
    (SucceededWithRuns /\ HasIncluded(response)) =>
        \A i \in 1..Len(response.data) :
            /\ AttributeLookupsSelectFirstMatch(response.data[i],
                                                response.included, lookups[i])
            /\ lookups[i].cfgVersion =
                 AttributesOf(
                   FirstMatch(response.included, "configuration-versions",
                     RelId(response.data[i].relationships.configurationVersion)))

\* C1 witness: the plan is found at the second place of the array, behind an
\* element of another type that carries the same id.
C1_Witness ==
    /\ SucceededWithRuns
    /\ HasIncluded(response)
    /\ Len(response.included) = 2
    /\ response.included[1].id = "a"
    /\ response.included[1].type # "plans"
    /\ response.included[2].type = "plans"
    /\ lookups[1].planAttributes = response.included[2].attributes

\* C2: activeWorkspace is the argument of the most recent refresh call
\* (undefined before the first), every refresh call fires exactly one
\* tree-change event, the refresh command leaves activeWorkspace as it is, and
\* no step other than a refresh call changes activeWorkspace.
C2_ProviderOwnsActiveWorkspace ==
    /\ [](activeWorkspace = lastRefreshArg)
    /\ [][refreshCalls' # refreshCalls =>
            (refreshCalls' = refreshCalls + 1 /\ fired' = fired + 1)]_vars
    /\ [][RefreshCommand => activeWorkspace' = activeWorkspace]_vars
    /\ [][refreshCalls' = refreshCalls => activeWorkspace' = activeWorkspace]_vars

\* C2 witness: after two refresh calls the second workspace is active while
\* a tooltip has been resolved for an item of a finished getChildren call.
C2_Witness ==
    /\ refreshCalls = 2
    /\ fired = 2
    /\ activeWorkspace = W2
    /\ pc = "resolved"
    /\ tooltip # Undefined

\* C3: a listRuns request is issued only by the getRuns of a root getChildren
\* call that found an active workspace and a non-empty organization, was
\* answered a session by getSession and still finds an active workspace; a
\* refresh call issues none; a call issues at most one; getChildren(element)
\* resolves to [element], and a root call without active workspace, with an
\* empty organization or without a session resolves to the empty list, each
\* without a request.
C3_RequestsAreLazy ==
    /\ [][requests' # requests /\ requests' # << >> =>
            /\ pc = "awaitSession" /\ pc' = "awaitListRuns"
            /\ refreshCalls' = refreshCalls
            /\ callElement = Undefined
            /\ callWorkspace # Undefined
            /\ callOrganization # ""
            /\ sessionResult' = "session"
            /\ activeWorkspace # Undefined
            /\ requests' = << [workspace_id |-> callWorkspace.id] >>]_vars
    /\ [](Len(requests) <= 1)
    /\ []((pc = "resolved" /\ callElement # Undefined) =>
            (result = << callElement >> /\ requests = << >>))
    /\ []((pc = "resolved" /\ callElement = Undefined
           /\ (callWorkspace = Undefined \/ callOrganization = ""
               \/ sessionResult = "undefined")) =>
            (result = << >> /\ requests = << >>))

\* C3 witness: a root call that issued its one request and resolved to runs,
\* after a refresh call.
C3_Witness ==
    /\ SucceededWithRuns
    /\ Len(requests) = 1
    /\ refreshCalls >= 1
    /\ Len(result) = 2

\* C4 (as stated): when listRuns fails, getRuns shows exactly one notification
\* and resolves to the empty list, and nothing reaches the caller of
\* getChildren.
C4_FailureIsCaught ==
    (pc \in {"resolved", "rejected"} /\ response # Undefined
     /\ "error" \in DOMAIN response) =>
        (pc = "resolved" /\ result = << >> /\ Len(notifications) = 1)

\* The plan (apply) decoration of an item is what the claim C5 says it is.
DecoratedIff(id, attributes, rel, type, runs) ==
    LET object == IF HasIncluded(runs)
                  THEN FirstMatch(runs.included, type, RelId(rel))
                  ELSE Undefined
        expected == /\ HasIncluded(runs)
                    /\ rel # Undefined
                    /\ object # Undefined
                    /\ object.attributes.status \in {"errored", "canceled", "finished"}
    IN  /\ (id # Unset) <=> expected
        /\ (attributes # Undefined) <=> expected
        /\ expected => (id = object.id /\ attributes = object.attributes)

\* C5: an item carries planId and planAttributes exactly when the answer has
\* an included array, the run has a plan relationship, the array holds the
\* plan with that id and its status is errored, canceled or finished; the
\* same for the apply; ingressAttributes only with configurationVersion; and
\* without an included array none of the decorations.
C5_DecorationsFollowIncluded ==
    SucceededWithRuns =>
        \A i \in 1..Len(result) :
            LET item == result[i]
                run == response.data[i]
            IN  /\ DecoratedIff(item.planId, item.planAttributes,
                                run.relationships.plan, "plans", response)
                /\ DecoratedIff(item.applyId, item.applyAttributes,
                                run.relationships.apply, "applies", response)
                /\ item.ingressAttributes # Undefined =>
                     item.configurationVersion # Undefined
                /\ ~HasIncluded(response) =>
                     /\ item.createdBy = Undefined
                     /\ item.configurationVersion = Undefined
                     /\ item.ingressAttributes = Undefined
                     /\ item.planId = Unset
                     /\ item.applyId = Unset

\* C5 witness: the run has both relationships and both objects are included,
\* the apply in a terminal status and the plan not: the item carries the
\* apply and no plan.
C5_Witness ==
    /\ SucceededWithRuns
    /\ HasIncluded(response)
    /\ response.data[1].relationships.plan = Rel("a")
    /\ \E j \in 1..Len(response.included) :
          /\ response.included[j].type = "plans"
          /\ response.included[j].id = "a"
    /\ result[1].planId = Unset
    /\ result[1].applyId = "a"

\* The markdown rows, by name and in order.
RowNames(markdown) ==
    LET rows == SelectSeq(markdown, LAMBDA x : "row" \in DOMAIN x)
    IN  [i \in 1..Len(rows) |-> rows[i].row]

Authors(markdown) ==
    SelectSeq(markdown, LAMBDA x : "part" \in DOMAIN x /\ x.part = "author")

\* C6: the author of the tooltip is createdBy when set, otherwise the ingress
\* sender when ingressAttributes is set, otherwise absent; the detailed
\* Configuration row and the Commit row appear exactly when ingressAttributes,
\* configurationVersion and its source are all present, otherwise the plain
\* Configuration row; the rows are Run ID, Status, Configuration (Commit),
\* Trigger, Execution Mode, once each and in that order.
C6_TooltipFollowsResolvedAttributes ==
    tooltip # Undefined =>
        LET item == hovered
            markdown == tooltip.value
            detailed == /\ item.ingressAttributes # Undefined
                        /\ item.configurationVersion # Undefined
                        /\ item.configurationVersion.source # Unset
            configuration ==
                SelectSeq(markdown,
                          LAMBDA x : "row" \in DOMAIN x /\ x.row = "Configuration")
        IN  /\ IF item.createdBy # Undefined
               THEN /\ Len(Authors(markdown)) = 1
                    /\ Authors(markdown)[1].username = item.createdBy.username
               ELSE IF item.ingressAttributes # Undefined
               THEN /\ Len(Authors(markdown)) = 1
                    /\ Authors(markdown)[1].username =
                         item.ingressAttributes.senderUsername
               ELSE Authors(markdown) = << >>
            /\ RowNames(markdown) =
                 IF detailed
                 THEN << "Run ID", "Status", "Configuration", "Commit",
                         "Trigger", "Execution Mode" >>
                 ELSE << "Run ID", "Status", "Configuration", "Trigger",
                         "Execution Mode" >>
            /\ Len(configuration) = 1
            /\ configuration[1].detailed = detailed
            /\ ~detailed => configuration[1].source = item.attributes.source

\* C6 witness: a tooltip of an item that has a creator and ingress attributes
\* with another sender, and the detailed Configuration row.
C6_Witness ==
    /\ tooltip # Undefined
    /\ hovered.createdBy # Undefined
    /\ hovered.ingressAttributes # Undefined
    /\ hovered.configurationVersion # Undefined
    /\ hovered.configurationVersion.source # Unset
    /\ hovered.createdBy.username # hovered.ingressAttributes.senderUsername

\* The calls of terraform.tflint made by invocation i.
CallsBy(i) == {k \in 1..Len(linterCalls) : linterCalls[k].by = i}

\* C7: the instance registers exactly one command, 'terraform.tflint'; every
\* invocation makes exactly one call of terraform.tflint, with the client and
\* the reporter of the constructor, and completes only after that call has;
\* after dispose the command is unregistered and no invocation, hence no call,
\* is added.
C7_OneLinterCallPerInvocation ==
    /\ [](commands = << "terraform.tflint" >>)
    /\ [](~disposed => registry = {"terraform.tflint"})
    /\ [](Len(linterCalls) = Len(invocations))
    /\ [](\A i \in 1..Len(invocations) :
            /\ Cardinality(CallsBy(i)) = 1
            /\ \A k \in CallsBy(i) :
                  /\ linterCalls[k].client = client
                  /\ linterCalls[k].reporter = reporter
                  /\ invocations[i] = "completed" => linterCalls[k].done)
    /\ [](disposed => registry = {})
    /\ [][disposed => (Len(invocations') = Len(invocations)
                       /\ Len(linterCalls') = Len(linterCalls))]_vars

\* C7 witness: disposed while one invocation has completed and another still
\* awaits its call.
C7_Witness ==
    /\ disposed
    /\ Len(invocations) = 2
    /\ invocations[1] = "completed"
    /\ invocations[2] = "awaiting"
    /\ client = "client-2"
    /\ reporter = "reporter-1"

\* C8 (as stated): every item a getRuns call returns, the placeholder and the
\* messages it shows carry the workspace whose id went into the request.
C8_ItemsCarryRequestedWorkspace ==
    (pc = "resolved" /\ requests # << >>) =>
        /\ SucceededWithRuns =>
             \A i \in 1..Len(result) : result[i].workspace = callWorkspace
        /\ \A i \in 1..Len(result) :
             "label" \in DOMAIN result[i] =>
                 result[i].label.name = callWorkspace.attributes.name
        /\ \A i \in 1..Len(notifications) :
             notifications[i].name \in {Unset, callWorkspace.attributes.name}

\* C9 (as stated): the promise of getChildren never rejects.
C9_GetChildrenNeverRejects == pc # "rejected"

\* C10 (as stated): contextValue is unset, 'hasPlan', 'hasApply' or
\* 'hasPlanhasApply', with 'hasPlan' in it exactly when planId is set and
\* 'hasApply' in it exactly when applyId is set.
C10_ContextValueNamesDecorations ==
    SucceededWithRuns =>
        \A i \in 1..Len(result) :
            /\ result[i].contextValue
                 \in {Unset, "hasPlan", "hasApply", "hasPlanhasApply"}
            /\ result[i].contextValue \in {"hasPlan", "hasPlanhasApply"}
                 <=> result[i].planId # Unset
            /\ result[i].contextValue \in {"hasApply", "hasPlanhasApply"}
                 <=> result[i].applyId # Unset

====
